---- MODULE Spec2Model ----
(***************************************************************************)
(* Batch geocoding engine of src/app.py: the controllable batch loop       *)
(* geocode_batch_with_control, the resolution functions                    *)
(* geocode_with_retry / geocode_cep_robust / custom_geocode, the cache     *)
(* (GEOCODING_CACHE, load_cache, save_cache), the checkpoint               *)
(* (save_partial_progress) and the command handlers of                     *)
(* show_cnpj_processing that write the shared control state.               *)
(*                                                                         *)
(* Strings that the code inspects character by character (addresses,       *)
(* postal codes) are sequences of one-character strings.  Coordinates are  *)
(* whole degrees.  The command handlers run asynchronously to the batch    *)
(* loop and each is one atomic step on st.session_state.                   *)
(***************************************************************************)
EXTENDS Integers, Sequences, FiniteSets, TLC

\* ------------------------------------------------------------------------
\* Program constants
\* ------------------------------------------------------------------------
IDLE == "idle"
RUNNING == "running"
PAUSED == "paused"
STOPPED == "stopped"
COMPLETED == "completed"
PROCESSING_STATES == {IDLE, RUNNING, PAUSED, STOPPED, COMPLETED}

max_retries == 3
CheckpointEvery == 25
CepLen == 8
MinLat == -22
MaxLat == -17
MinLon == -42
MaxLon == -38

\* ------------------------------------------------------------------------
\* Bounds of the model
\* ------------------------------------------------------------------------
MaxRecords == 2
LongLen == 26
MaxProviders == 2

\* ------------------------------------------------------------------------
\* Values
\* ------------------------------------------------------------------------
\* An optional value (None / NaN in the code) is the empty tuple, a present
\* value x is <<x>>.
Nothing == <<>>
Some(x) == <<x>>
IsNone(o) == o = <<>>
Get(o) == o[1]

\* None as the value of a text column or of a text variable
None == "None"
\* a local variable that no assignment has bound yet
UNBOUND == "UNBOUND"
\* a character that str.encode() rejects (a lone surrogate)
Surrogate == "?"

AllGeocoders == <<"Nominatim", "Photon", "ArcGIS">>

\* Addresses of the rows: a street, the same street in another letter case,
\* the empty string, and a string holding a lone surrogate (str.encode raises).
AddrRua == <<"r", "u", "a">>
AddrRUA == <<"R", "u", "a">>
AddrEmpty == <<>>
AddrBad == <<"r", Surrogate>>

\* Postal codes of the rows.
CepDash == <<"2", "9", "0", "0", "0", "-", "0", "0", "0">>
CepDots == <<" ", "2", "9", ".", "0", "0", "0", "-", "0", "0", "0">>
CepShort == <<"2", "9", "0", "0">>
CepBlank == <<" ">>

RowKinds ==
    { [addr |-> Some(AddrRua), cep |-> Some(CepDash)],
      [addr |-> Some(AddrRUA), cep |-> Some(CepShort)],
      [addr |-> Some(AddrEmpty), cep |-> Some(CepDots)],
      [addr |-> Some(AddrEmpty), cep |-> Some(CepBlank)],
      [addr |-> Some(AddrBad), cep |-> Nothing],
      [addr |-> Nothing, cep |-> Some(CepDash)] }

\* Answers of one provider call: a location, no match, or an exception.
Location(lat, lon) == [kind |-> "location", lat |-> lat, lon |-> lon, exc |-> ""]
NoMatch == [kind |-> "none", lat |-> 0, lon |-> 0, exc |-> ""]
Raise(e) == [kind |-> "raise", lat |-> 0, lon |-> 0, exc |-> e]

InBox == { Location(-22, -42) }
OutOfBox == { Location(-23, -40), Location(-20, -37) }
Retryable == {"GeocoderTimedOut", "GeocoderServiceError", "GeocoderUnavailable"}
\* no exception is being handled
NoException == ""
Raised == {Raise(e) : e \in Retryable \cup {"Exception"}}
Answers == InBox \cup OutOfBox \cup {NoMatch} \cup Raised

\* ------------------------------------------------------------------------
\* Pure functions
\* ------------------------------------------------------------------------
Lower(c) == IF c = "R" THEN "r" ELSE c

\* get_cache_key: md5 of the lower-cased address; the digest is injective on
\* the addresses of the model, so the lower-cased address stands for it.
get_cache_key(address) == [k \in 1..Len(address) |-> Lower(address[k])]

\* str.encode() fails on a lone surrogate
Encodable(address) == \A k \in 1..Len(address) : address[k] # Surrogate

Replace(s, ch) == SelectSeq(s, LAMBDA c : c # ch)

RECURSIVE LStrip(_)
LStrip(s) == IF s # <<>> /\ Head(s) = " " THEN LStrip(Tail(s)) ELSE s

RECURSIVE RStrip(_)
RStrip(s) ==
    IF s # <<>> /\ s[Len(s)] = " " THEN RStrip(SubSeq(s, 1, Len(s) - 1)) ELSE s

Strip(s) == LStrip(RStrip(s))

\* str(cep).replace('-', '').replace('.', '').strip()
CepClean(cep) == Strip(Replace(Replace(cep, "-"), "."))

\* f"{cep_clean[:5]}-{cep_clean[5:]}, Espirito Santo, Brasil"
CepAddress(cep) ==
    LET c == CepClean(cep)
    IN SubSeq(c, 1, 5) \o <<"-">> \o SubSeq(c, 6, Len(c)) \o <<",", "E", "S">>

\* the region check with the longitude test left out
InBounds_LatOnly(lat, lon) ==
    MinLat <= lat /\ lat <= MaxLat

\* the region check with the two lower limits left out
InBounds_UpperOnly(lat, lon) ==
    lat <= MaxLat /\ lon <= MaxLon

InBounds(lat, lon) ==
    /\ MinLat <= lat /\ lat <= MaxLat
    /\ MinLon <= lon /\ lon <= MaxLon

Result(lat, lon, method, status) ==
    [lat |-> lat, lon |-> lon, method |-> method, status |-> status]

NoResult == Result(Nothing, Nothing, None, None)

\* 2 ** attempt
RECURSIVE Pow2(_)
Pow2(n) == IF n = 0 THEN 1 ELSE 2 * Pow2(n - 1)

\* method.str.contains('CEP') over the method values the code writes
ContainsCEP(method) ==
    method \in {"CEP", "Sem CEP"} \cup
               {"CEP-" \o AllGeocoders[g] : g \in 1..Len(AllGeocoders)}

EmptyCache == <<>>

CachePut(cache, key, value) ==
    [k \in DOMAIN cache \cup {key} |-> IF k = key THEN value ELSE cache[k]]

\* ------------------------------------------------------------------------
\* Inputs of a run
\* ------------------------------------------------------------------------
RECURSIVE SeqsUpTo(_, _)
SeqsUpTo(S, n) ==
    IF n = 0 THEN {<<>>}
    ELSE LET shorter == SeqsUpTo(S, n - 1)
         IN shorter \cup {Append(q, x) : q \in shorter, x \in S}

QuietRow == [addr |-> Some(AddrEmpty), cep |-> Some(CepShort)]
LastRow == [addr |-> Some(AddrRua), cep |-> Some(CepDash)]
LongDataset == [k \in 1..LongLen |-> IF k < LongLen THEN QuietRow ELSE LastRow]


\* a long dataset whose last record has no full address
HoleRow == [addr |-> Nothing, cep |-> Some(CepDash)]
HoleDataset == [k \in 1..LongLen |-> IF k < LongLen THEN QuietRow ELSE HoleRow]

Datasets ==
    (SeqsUpTo(RowKinds, MaxRecords) \ {<<>>}) \cup {LongDataset, HoleDataset}

\* The rows of a dataset that has no postal-code column.
NoCepRowKinds ==
    { [addr |-> Some(AddrRua), cep |-> Nothing],
      [addr |-> Some(AddrEmpty), cep |-> Nothing],
      [addr |-> Some(AddrBad), cep |-> Nothing],
      [addr |-> Nothing, cep |-> Nothing] }

NoCepDatasets == SeqsUpTo(NoCepRowKinds, MaxRecords) \ {<<>>}

GeocoderLists == {SubSeq(AllGeocoders, 1, n) : n \in 1..MaxProviders}

\* The cache file on disk.  `readable`: open(CACHE_FILE, 'rb') and pickle.load
\* succeed; `writable`: open(CACHE_FILE, 'wb') succeeds; `data`: the entries
\* that were pickled into it.
NoFile ==
    [exists |-> FALSE, readable |-> FALSE, writable |-> TRUE, data |-> EmptyCache]
File(cache) ==
    [exists |-> TRUE, readable |-> TRUE, writable |-> TRUE, data |-> cache]
\* what open(CACHE_FILE, 'wb') followed by an unfinished pickle.dump leaves
Truncated ==
    [exists |-> TRUE, readable |-> FALSE, writable |-> TRUE, data |-> EmptyCache]
\* a file the process may neither read nor write
Locked(cache) ==
    [exists |-> TRUE, readable |-> FALSE, writable |-> FALSE, data |-> cache]

EarlierCache ==
    CachePut(EmptyCache, get_cache_key(AddrRua),
             <<-20, -40, "Nominatim", "Sucesso">>)

\* What is on disk when the run starts: no file, the cache of an earlier run,
\* or a file that cannot be opened.
CacheFiles == { NoFile, File(EarlierCache), Locked(EarlierCache) }

\* How the providers behave: any answer on any call, or a stub that times out
\* on its first two calls for a query and then answers inside the region, or
\* a stub that always raises a retryable error.
Worlds == {"free", "retry", "allfail"}

VARIABLES
    processing_state, processed_index, rendered,
    partial_results, current_stats,
    rows, hasCep, geocoders, world,
    pc, i, df, success_count, cep_count, error_count, cache_count, status,
    ret, phase, address, gi, attempt, exc,
    GEOCODING_CACHE, cache_file,
    calls, slept, brokeOnStop, wasPaused, stopDuring, afterStop, memo

control == <<processing_state, processed_index, rendered>>
published == <<partial_results, current_stats>>
inputs == <<rows, hasCep, geocoders, world>>
counters == <<success_count, cep_count, error_count, cache_count>>
frame == <<ret, phase, address, gi, attempt, exc>>
caches == <<GEOCODING_CACHE, cache_file>>
history == <<calls, slept, brokeOnStop, wasPaused, stopDuring, afterStop>>
vars == <<control, published, inputs, pc, i, df, counters, status, frame,
          caches, history, memo>>

NoAfterStop == [calls |-> 0, slept |-> FALSE, cep |-> FALSE, records |-> 0]

\* the locals of the resolution functions before a record is taken up
ResetFrame ==
    /\ ret' = NoResult
    /\ phase' = None
    /\ address' = <<>>
    /\ gi' = 0
    /\ attempt' = 0
    /\ exc' = NoException

Init ==
    /\ processing_state = IDLE
    /\ processed_index = 0
    /\ rendered = IDLE
    /\ partial_results = Nothing
    /\ current_stats = Nothing
    /\ hasCep \in BOOLEAN
    /\ rows \in IF hasCep THEN Datasets ELSE NoCepDatasets
    /\ geocoders \in GeocoderLists
    /\ world \in Worlds
    /\ pc = "idle"
    /\ i = 0
    /\ df = <<>>
    /\ success_count = 0
    /\ cep_count = 0
    /\ error_count = 0
    /\ cache_count = 0
    /\ status = UNBOUND
    /\ ret = NoResult
    /\ phase = None
    /\ address = <<>>
    /\ gi = 0
    /\ attempt = 0
    /\ exc = NoException
    /\ GEOCODING_CACHE = EmptyCache
    /\ cache_file \in CacheFiles
    /\ calls = 0
    /\ slept = 0
    /\ brokeOnStop = FALSE
    /\ wasPaused = FALSE
    /\ stopDuring = FALSE
    /\ afterStop = NoAfterStop
    /\ memo = Nothing

\* ------------------------------------------------------------------------
\* Command handlers of show_cnpj_processing.  A button can be clicked when
\* create_control_buttons rendered it enabled; `rendered` is the control
\* state that the last rendering of the page read.
\* ------------------------------------------------------------------------
Resolving ==
    {"gwr_enter", "gwr_call", "gwr_call2", "addr_done", "cep_enter",
     "cep_done", "except"}

Busy == pc \notin {"idle", "returned", "aborted"}

\* the process has not been killed
Alive == pc # "killed"

StartEnabled == rendered = IDLE
PauseEnabled == rendered \in {RUNNING, PAUSED}
StopEnabled == rendered \in {RUNNING, PAUSED}

StartClicked ==
    /\ Alive
    /\ StartEnabled
    /\ processing_state' = RUNNING
    /\ processed_index' = 0
    /\ UNCHANGED <<rendered, published, inputs, memo, pc, i, df, counters, status,
                   frame, caches, history>>

PauseClicked ==
    /\ Alive
    /\ PauseEnabled
    /\ processing_state' =
         IF processing_state = RUNNING THEN PAUSED
         ELSE IF processing_state = PAUSED THEN RUNNING
         ELSE processing_state
    /\ UNCHANGED <<processed_index, rendered, published, inputs, memo, pc, i, df,
                   counters, status, frame, caches, history>>

StopClicked ==
    /\ Alive
    /\ StopEnabled
    /\ processing_state' = STOPPED
    /\ stopDuring' = (stopDuring \/ pc \in Resolving)
    /\ UNCHANGED <<processed_index, rendered, published, inputs, memo, pc, i, df,
                   counters, status, frame, caches, calls, slept, brokeOnStop,
                   wasPaused, afterStop>>

\* A run of the page script (after a handler, or on any other widget event)
\* while no batch call is in progress: the buttons are rendered again, the
\* dataset to process is copied afresh from the uploaded data, and the batch
\* function is called when the state read is Running.
ScriptRun ==
    /\ ~Busy
    /\ rendered' = processing_state
    /\ df' = <<>>
    /\ pc' = IF processing_state = RUNNING THEN "call" ELSE "idle"
    /\ UNCHANGED <<processing_state, processed_index, published, inputs, memo, i,
                   counters, status, frame, caches, history>>

\* ------------------------------------------------------------------------
\* geocode_batch_with_control
\* ------------------------------------------------------------------------
total_records == Len(rows)

\* load_cache whose except clause does not reset the cache
load_cache_KeepsCache(file, cache) ==
    IF file.exists /\ file.readable THEN file.data ELSE cache

load_cache(file, cache) ==
    IF ~file.exists THEN cache
    ELSE IF file.readable THEN file.data
    ELSE EmptyCache

save_cache(file, cache) == IF file.writable THEN File(cache) ELSE file

\* lines 228-231: the counters recomputed from the first k rows
Recount(k) ==
    LET s == Cardinality({n \in 1..k : df[n].status = "Sucesso"})
        c == Cardinality({n \in 1..k : ContainsCEP(df[n].method)})
        h == Cardinality({n \in 1..k : df[n].status = "Cache"})
    IN [success |-> s, cep |-> c, cache |-> h, error |-> k - s - c - h]

Enter ==
    /\ pc = "call"
    /\ GEOCODING_CACHE' = load_cache(cache_file, GEOCODING_CACHE)
    /\ i' = processed_index
    /\ status' = UNBOUND
    /\ calls' = 0
    /\ slept' = 0
    /\ brokeOnStop' = FALSE
    /\ wasPaused' = FALSE
    /\ stopDuring' = FALSE
    /\ afterStop' = NoAfterStop
    /\ IF processed_index = 0
       THEN /\ df' = [k \in 1..total_records |-> NoResult]
            /\ success_count' = 0
            /\ cep_count' = 0
            /\ cache_count' = 0
            /\ error_count' = 0
            /\ pc' = "set_running"
       ELSE IF df = <<>>
       THEN \* KeyError 'geocoding_status' at line 228, caught at line 1967
            /\ pc' = "aborted"
            /\ UNCHANGED <<df, counters>>
       ELSE /\ success_count' = Recount(processed_index).success
            /\ cep_count' = Recount(processed_index).cep
            /\ cache_count' = Recount(processed_index).cache
            /\ error_count' = Recount(processed_index).error
            /\ pc' = "set_running"
            /\ UNCHANGED df
    /\ ResetFrame
    /\ UNCHANGED <<control, published, inputs, memo, cache_file>>

SetRunning ==
    /\ pc = "set_running"
    /\ processing_state' = RUNNING
    /\ pc' = "loop_top"
    /\ UNCHANGED <<processed_index, rendered, published, inputs, memo, i, df,
                   counters, status, frame, caches, history>>

\* top of one iteration, lines 242-251
LoopTop ==
    /\ pc = "loop_top"
    /\ IF i >= total_records
       THEN pc' = "finish" /\ UNCHANGED <<brokeOnStop, wasPaused>>
       ELSE IF processing_state = STOPPED
       THEN pc' = "finish" /\ brokeOnStop' = TRUE /\ UNCHANGED wasPaused
       ELSE IF processing_state = PAUSED
       THEN pc' = "pause_wait" /\ wasPaused' = TRUE /\ UNCHANGED brokeOnStop
       ELSE pc' = "record" /\ UNCHANGED <<brokeOnStop, wasPaused>>
    /\ UNCHANGED <<control, published, inputs, memo, i, df, counters, status, frame,
                   caches, calls, slept, stopDuring, afterStop>>

\* lines 252-253: the poll returns once the state read is not Paused
PausePoll ==
    /\ pc = "pause_wait"
    /\ processing_state # PAUSED
    /\ pc' = "pause_exit"
    /\ UNCHANGED <<control, published, inputs, memo, i, df, counters, status, frame,
                   caches, history>>

\* leaving the pause without the check for Stopped of lines 255-257
PauseExit_NoStopCheck ==
    /\ pc = "pause_exit"
    /\ pc' = "record"
    /\ UNCHANGED <<control, published, inputs, memo, i, df, counters, status, frame,
                   caches, history>>

\* lines 255-259
PauseExit ==
    /\ pc = "pause_exit"
    /\ IF processing_state = STOPPED
       THEN pc' = "finish" /\ brokeOnStop' = TRUE
       ELSE pc' = "record" /\ UNCHANGED brokeOnStop
    /\ UNCHANGED <<control, published, inputs, memo, i, df, counters, status, frame,
                   caches, calls, slept, wasPaused, stopDuring, afterStop>>

save_partial_progress(d, processed_count, total_count) ==
    Some([df |-> d, processed_count |-> processed_count,
          total_count |-> total_count])

\* lines 261-287: progress, checkpoint, log line of the address, branch
RecordStart ==
    /\ pc = "record"
    /\ IF (i + 1) % CheckpointEvery = 0
       THEN /\ partial_results' = save_partial_progress(df, i + 1, total_records)
            /\ processed_index' = i + 1
       ELSE UNCHANGED <<partial_results, processed_index>>
    /\ afterStop' = IF stopDuring
                    THEN [afterStop EXCEPT !.records = 1]
                    ELSE afterStop
    /\ wasPaused' = FALSE
    /\ IF IsNone(rows[i + 1].addr)
       THEN \* endereco[:50] on NaN/None: TypeError at line 284, outside any try
            /\ pc' = "aborted"
            /\ UNCHANGED <<phase, address>>
       ELSE /\ pc' = "gwr_enter"
            /\ phase' = "addr"
            /\ address' = Get(rows[i + 1].addr)
    /\ UNCHANGED <<processing_state, rendered, current_stats, inputs, memo, i,
                   df, counters, status, ret, gi, attempt, exc, caches,
                   calls, slept, brokeOnStop, stopDuring>>

\* ------------------------------------------------------------------------
\* geocode_with_retry (called for the full address, phase "addr", and by
\* geocode_cep_robust for the postal-code query, phase "cep")
\* ------------------------------------------------------------------------
\* geocode_cep_robust lines 561-563: what it makes of geocode_with_retry's result
CepWrap(r) ==
    IF ~IsNone(r.lat)
    THEN Result(r.lat, r.lon, "CEP-" \o r.method, r.status)
    ELSE Result(Nothing, Nothing, "CEP", "Falhou")

\* geocode_with_retry returns r to its caller
GwrReturn(r) ==
    IF phase = "addr"
    THEN ret' = r /\ pc' = "addr_done"
    ELSE ret' = CepWrap(r) /\ pc' = "cep_done"

\* a cache hit that hands back the status stored in the entry
CacheHit_StoredStatus(cache, key) ==
    Result(Some(cache[key][1]), Some(cache[key][2]), cache[key][3],
           cache[key][4])

CacheHit(cache, key) ==
    Result(Some(cache[key][1]), Some(cache[key][2]), cache[key][3], "Cache")

\* In the scripted worlds `memo` keeps the first query that geocode_with_retry
\* (through geocode_cep_robust for a postal code) has answered: the query, the
\* cache it was answered from, the result, and whether the same query has
\* been answered from the same cache again.
Memo ==
    IF world = "free" \/ pc' \notin {"addr_done", "cep_done"} THEN memo
    ELSE IF IsNone(memo)
    THEN Some([address |-> address, cache |-> GEOCODING_CACHE, result |-> ret',
               again |-> FALSE])
    ELSE IF Get(memo).address = address /\ Get(memo).cache = GEOCODING_CACHE
    THEN Some([Get(memo) EXCEPT !.again = TRUE])
    ELSE memo

\* lines 492-499
GwrEnter ==
    /\ pc = "gwr_enter"
    /\ calls' = 0
    /\ slept' = 0
    /\ IF address = <<>>
       THEN /\ GwrReturn(Result(Nothing, Nothing, "Endereco vazio", "Falhou"))
            /\ UNCHANGED <<gi, attempt>>
       ELSE IF ~Encodable(address)
       THEN \* UnicodeEncodeError in get_cache_key
            /\ IF phase = "addr"
               THEN pc' = "except" /\ UNCHANGED ret
               ELSE ret' = Result(Nothing, Nothing, "CEP", "Erro") /\ pc' = "cep_done"
            /\ UNCHANGED <<gi, attempt>>
       ELSE IF get_cache_key(address) \in DOMAIN GEOCODING_CACHE
       THEN /\ GwrReturn(CacheHit(GEOCODING_CACHE, get_cache_key(address)))
            /\ UNCHANGED <<gi, attempt>>
       ELSE /\ gi' = 1
            /\ attempt' = 0
            /\ pc' = "gwr_call"
            /\ UNCHANGED ret
    /\ memo' = Memo
    /\ UNCHANGED <<control, published, inputs, i, df, counters, status, phase,
                   address, exc, caches, brokeOnStop, wasPaused, stopDuring,
                   afterStop>>

\* what the provider answers to the next call
NextAnswers ==
    IF world = "free" THEN Answers
    ELSE IF world = "retry"
    THEN IF calls < 2 THEN {Raise("GeocoderTimedOut")} ELSE InBox
    ELSE {Raise(e) : e \in Retryable}

Min(a, b) == IF a < b THEN a ELSE b

AfterStop(didSleep) ==
    IF stopDuring
    THEN [afterStop EXCEPT !.calls = Min(2, @ + 1), !.slept = @ \/ didSleep]
    ELSE afterStop

\* the for loops of lines 502-503 move on
NextProvider ==
    IF gi < Len(geocoders)
    THEN gi' = gi + 1 /\ attempt' = 0 /\ pc' = "gwr_call" /\ UNCHANGED ret
    ELSE /\ GwrReturn(Result(Nothing, Nothing, "Multiplos provedores", "Falhou"))
         /\ UNCHANGED <<gi, attempt>>

\* The stub providers of the scripted worlds count the calls they receive for
\* a query (`calls`) and the backoff slept between them (`slept`); the
\* providers of the free world keep no count.
Tally(n) == IF world = "free" THEN 0 ELSE n

\* the attempts loop handing every failed attempt on to the next provider
NextAttempt_RoundRobin == NextProvider

\* the attempts loop giving up with a failure once the state read is Stopped
NextAttempt_ChecksStop ==
    IF processing_state = STOPPED
    THEN /\ GwrReturn(Result(Nothing, Nothing, "Interrompido", "Falhou"))
         /\ UNCHANGED <<gi, attempt>>
    ELSE IF attempt + 1 < max_retries
    THEN attempt' = attempt + 1 /\ pc' = "gwr_call" /\ UNCHANGED <<gi, ret>>
    ELSE NextProvider

NextAttempt ==
    IF attempt + 1 < max_retries
    THEN attempt' = attempt + 1 /\ pc' = "gwr_call" /\ UNCHANGED <<gi, ret>>
    ELSE NextProvider

Backoff == IF attempt < max_retries - 1 THEN Pow2(attempt) ELSE 0

\* lines 510-536: what geocode_with_retry does with the outcome of custom_geocode
Handle(a) ==
    IF a.kind = "location" /\ InBounds(a.lat, a.lon)
    THEN /\ GEOCODING_CACHE' =
              CachePut(GEOCODING_CACHE, get_cache_key(address),
                       <<a.lat, a.lon, geocoders[gi], "Sucesso">>)
         /\ cache_file' = save_cache(cache_file, GEOCODING_CACHE')
         /\ GwrReturn(Result(Some(a.lat), Some(a.lon), geocoders[gi], "Sucesso"))
         /\ afterStop' = AfterStop(FALSE)
         /\ calls' = Tally(calls + 1)
         /\ UNCHANGED <<gi, attempt, slept>>
    ELSE IF a.kind = "location"
    THEN /\ NextAttempt
         /\ afterStop' = AfterStop(FALSE)
         /\ calls' = Tally(calls + 1)
         /\ slept' = slept
         /\ UNCHANGED caches
    ELSE IF a.kind = "none" \/ a.exc \in Retryable
    THEN /\ NextAttempt
         /\ afterStop' = AfterStop(Backoff > 0)
         /\ calls' = Tally(calls + 1)
         /\ slept' = Tally(slept + Backoff)
         /\ UNCHANGED caches
    ELSE /\ NextProvider
         /\ afterStop' = AfterStop(FALSE)
         /\ calls' = Tally(calls + 1)
         /\ slept' = slept
         /\ UNCHANGED caches

\* the timeout argument of the call made at each of the two call sites of
\* custom_geocode (line 475, line 478)
CallTimeout(site) == IF site = "gwr_call" THEN Some(30) ELSE Nothing

\* custom_geocode line 475: geocoder.geocode(address, timeout=30)
ProviderCall ==
    /\ pc = "gwr_call"
    /\ \E a \in NextAnswers :
         IF a.kind = "raise"
         THEN /\ pc' = "gwr_call2"
              /\ exc' = a.exc
              /\ calls' = Tally(calls + 1)
              /\ afterStop' = AfterStop(FALSE)
              /\ UNCHANGED <<ret, gi, attempt, caches, slept>>
         ELSE Handle(a) /\ UNCHANGED exc
    /\ memo' = Memo
    /\ UNCHANGED <<control, published, inputs, i, df, counters, status, phase,
                   address, brokeOnStop, wasPaused, stopDuring>>

\* custom_geocode line 478: geocoder.geocode(address), after any exception
ProviderCallNoTimeout ==
    /\ pc = "gwr_call2"
    /\ \E a \in NextAnswers : Handle(a)
    /\ exc' = NoException
    /\ memo' = Memo
    /\ UNCHANGED <<control, published, inputs, i, df, counters, status, phase,
                   address, brokeOnStop, wasPaused, stopDuring>>

\* ------------------------------------------------------------------------
\* the per-record body after the address attempt
\* ------------------------------------------------------------------------
\* the write of lines 292-295 without the method and status columns
WriteResult_CoordinatesOnly(d, n, r) ==
    [d EXCEPT ![n].lat = r.lat, ![n].lon = r.lon]

WriteResult(d, n, r) == [d EXCEPT ![n] = r]
WriteMethodStatus(d, n, method, st) ==
    [d EXCEPT ![n].method = method, ![n].status = st]

\* the full-address branch going on to the postal code whenever there is a
\* postal-code column, whatever the full-address attempt returned
AddrDone_AlwaysCep ==
    /\ pc = "addr_done"
    /\ status' = ret.status
    /\ IF ~IsNone(ret.lat) /\ ~hasCep
       THEN /\ df' = WriteResult(df, i + 1, ret)
            /\ IF ret.status = "Cache"
               THEN cache_count' = cache_count + 1 /\ UNCHANGED success_count
               ELSE success_count' = success_count + 1 /\ UNCHANGED cache_count
            /\ pc' = "stats"
            /\ UNCHANGED <<error_count, cep_count, phase, afterStop>>
       ELSE IF hasCep
       THEN /\ pc' = "cep_enter"
            /\ phase' = "cep"
            /\ afterStop' = IF stopDuring
                            THEN [afterStop EXCEPT !.cep = TRUE]
                            ELSE afterStop
            /\ UNCHANGED <<df, counters>>
       ELSE /\ df' = WriteMethodStatus(df, i + 1, "Sem CEP", "Falhou")
            /\ error_count' = error_count + 1
            /\ pc' = "stats"
            /\ UNCHANGED <<success_count, cep_count, cache_count, phase,
                           afterStop>>
    /\ UNCHANGED <<control, published, inputs, memo, i, ret, address, gi, attempt,
                   exc, caches, calls, slept, brokeOnStop, wasPaused,
                   stopDuring>>

\* lines 289-309 and 329-333
AddrDone ==
    /\ pc = "addr_done"
    /\ status' = ret.status
    /\ IF ~IsNone(ret.lat)
       THEN /\ df' = WriteResult(df, i + 1, ret)
            /\ IF ret.status = "Cache"
               THEN cache_count' = cache_count + 1 /\ UNCHANGED success_count
               ELSE success_count' = success_count + 1 /\ UNCHANGED cache_count
            /\ pc' = "stats"
            /\ UNCHANGED <<error_count, cep_count, phase, afterStop>>
       ELSE IF hasCep
       THEN /\ pc' = "cep_enter"
            /\ phase' = "cep"
            /\ afterStop' = IF stopDuring
                            THEN [afterStop EXCEPT !.cep = TRUE]
                            ELSE afterStop
            /\ UNCHANGED <<df, counters>>
       ELSE /\ df' = WriteMethodStatus(df, i + 1, "Sem CEP", "Falhou")
            /\ error_count' = error_count + 1
            /\ pc' = "stats"
            /\ UNCHANGED <<success_count, cep_count, cache_count, phase,
                           afterStop>>
    /\ UNCHANGED <<control, published, inputs, memo, i, ret, address, gi, attempt,
                   exc, caches, calls, slept, brokeOnStop, wasPaused,
                   stopDuring>>

\* geocode_cep_robust lines 548-559
CepEnter ==
    /\ pc = "cep_enter"
    /\ calls' = 0
    /\ slept' = 0
    /\ LET cep == rows[i + 1].cep IN
       IF IsNone(cep) \/ Strip(Get(cep)) = <<>>
       THEN /\ ret' = Result(Nothing, Nothing, "CEP", "Sem CEP")
            /\ pc' = "cep_done"
            /\ UNCHANGED address
       ELSE IF Len(CepClean(Get(cep))) # CepLen
       THEN /\ ret' = Result(Nothing, Nothing, "CEP", "CEP invalido")
            /\ pc' = "cep_done"
            /\ UNCHANGED address
       ELSE /\ address' = CepAddress(Get(cep))
            /\ pc' = "gwr_enter"
            /\ UNCHANGED ret
    /\ UNCHANGED <<control, published, inputs, memo, i, df, counters, status, phase,
                   gi, attempt, exc, caches, brokeOnStop, wasPaused,
                   stopDuring, afterStop>>

\* lines 310-328
CepDone ==
    /\ pc = "cep_done"
    /\ status' = ret.status
    /\ IF ~IsNone(ret.lat)
       THEN /\ df' = WriteResult(df, i + 1, ret)
            /\ IF ret.status = "Cache"
               THEN cache_count' = cache_count + 1 /\ UNCHANGED cep_count
               ELSE cep_count' = cep_count + 1 /\ UNCHANGED cache_count
            /\ UNCHANGED error_count
       ELSE /\ df' = WriteMethodStatus(df, i + 1, ret.method, ret.status)
            /\ error_count' = error_count + 1
            /\ UNCHANGED <<cep_count, cache_count>>
    /\ pc' = "stats"
    /\ UNCHANGED <<control, published, inputs, memo, i, success_count, frame, caches,
                   history>>

\* the except branch without the increment of line 338
Except_NoCount ==
    /\ pc = "except"
    /\ df' = WriteMethodStatus(df, i + 1, "Erro", "Erro")
    /\ error_count' = error_count
    /\ pc' = "stats"
    /\ UNCHANGED <<control, published, inputs, memo, i, success_count, cep_count,
                   cache_count, status, frame, caches, history>>

\* lines 335-339: except Exception of the full-address branch
Except ==
    /\ pc = "except"
    /\ df' = WriteMethodStatus(df, i + 1, "Erro", "Erro")
    /\ error_count' = error_count + 1
    /\ pc' = "stats"
    /\ UNCHANGED <<control, published, inputs, memo, i, success_count, cep_count,
                   cache_count, status, frame, caches, history>>

\* line 388: the rate-limit delay is slept
RateLimited == status # "Cache"

\* lines 372-389: publish the counters, rate limit, next record
Stats ==
    /\ pc = "stats"
    /\ current_stats' =
         Some([success_count |-> success_count, cep_count |-> cep_count,
               cache_count |-> cache_count, error_count |-> error_count,
               total_processed |-> i + 1, total_records |-> total_records])
    /\ IF status = UNBOUND
       THEN \* UnboundLocalError at line 388, outside any try
            pc' = "aborted" /\ UNCHANGED i
       ELSE pc' = "loop_top" /\ i' = i + 1
    /\ ResetFrame
    /\ calls' = 0
    /\ slept' = 0
    /\ UNCHANGED <<control, partial_results, inputs, memo, df, counters, status,
                   caches, brokeOnStop, wasPaused, stopDuring, afterStop>>

\* lines 391-414
Finish ==
    /\ pc = "finish"
    /\ processing_state' = COMPLETED
    /\ processed_index' = total_records
    /\ current_stats' =
         Some([success_count |-> success_count, cep_count |-> cep_count,
               cache_count |-> cache_count, error_count |-> error_count,
               total_processed |-> total_records,
               total_records |-> total_records])
    /\ cache_file' = save_cache(cache_file, GEOCODING_CACHE)
    /\ pc' = "returned"
    /\ UNCHANGED <<rendered, partial_results, inputs, memo, i, df, counters,
                   status, frame, GEOCODING_CACHE, history>>

\* The cache that save_cache is about to write: at line 517 after an answer
\* inside the region, or at line 411.
BeingSaved ==
    IF pc = "finish" THEN {GEOCODING_CACHE}
    ELSE IF pc \in {"gwr_call", "gwr_call2"}
    THEN {CachePut(GEOCODING_CACHE, get_cache_key(address),
                   <<a.lat, a.lon, geocoders[gi], "Sucesso">>) :
            a \in {b \in NextAnswers :
                     b.kind = "location" /\ InBounds(b.lat, b.lon)}}
    ELSE {}

\* The process is killed while save_cache writes the file: the write may not
\* have begun, may have truncated the file and not finished the dump, or may
\* be complete.  Nothing of the process's memory is left.
KilledInSave ==
    /\ cache_file.writable
    /\ \E new \in BeingSaved :
         cache_file' \in {cache_file, Truncated, save_cache(cache_file, new)}
    /\ pc' = "killed"
    /\ processing_state' = IDLE
    /\ processed_index' = 0
    /\ rendered' = IDLE
    /\ partial_results' = Nothing
    /\ current_stats' = Nothing
    /\ i' = 0
    /\ df' = <<>>
    /\ success_count' = 0
    /\ cep_count' = 0
    /\ error_count' = 0
    /\ cache_count' = 0
    /\ status' = UNBOUND
    /\ ResetFrame
    /\ GEOCODING_CACHE' = EmptyCache
    /\ calls' = 0
    /\ slept' = 0
    /\ brokeOnStop' = FALSE
    /\ wasPaused' = FALSE
    /\ stopDuring' = FALSE
    /\ afterStop' = NoAfterStop
    /\ memo' = Nothing
    /\ UNCHANGED inputs

Next ==
    \/ StartClicked
    \/ PauseClicked
    \/ StopClicked
    \/ ScriptRun
    \/ Enter
    \/ SetRunning
    \/ LoopTop
    \/ PausePoll
    \/ PauseExit
    \/ RecordStart
    \/ GwrEnter
    \/ ProviderCall
    \/ ProviderCallNoTimeout
    \/ AddrDone
    \/ CepEnter
    \/ CepDone
    \/ Except
    \/ Stats
    \/ Finish
    \/ KilledInSave

Spec == Init /\ [][Next]_vars

\* The steps of the thread that runs geocode_batch_with_control: the thread
\* keeps running while it has a step to take.
BatchStep ==
    \/ Enter
    \/ SetRunning
    \/ LoopTop
    \/ PauseExit
    \/ RecordStart
    \/ GwrEnter
    \/ ProviderCall
    \/ ProviderCallNoTimeout
    \/ AddrDone
    \/ CepEnter
    \/ CepDone
    \/ Except
    \/ Stats
    \/ Finish

\* The poll of lines 252-253 reads the state every 0.1 s: a state that is not
\* Paused again and again is seen by the poll.
FairSpec == Spec /\ WF_vars(BatchStep) /\ SF_vars(PausePoll)

\* ------------------------------------------------------------------------
\* Properties
\* ------------------------------------------------------------------------
Edges ==
    { <<IDLE, RUNNING>>, <<RUNNING, PAUSED>>, <<RUNNING, STOPPED>>,
      <<RUNNING, COMPLETED>>, <<PAUSED, RUNNING>>, <<PAUSED, STOPPED>> }

\* the steps of the per-record body, lines 261-389
Body == Resolving \cup {"record", "stats"}

\* C1: when the batch loop ends because it observed Stopped, the control
\* state on return is Stopped; it is Completed only when the loop went
\* through every record.
C1_StoppedOnReturn ==
    [][(pc = "finish" /\ pc' = "returned") =>
          IF brokeOnStop
          THEN processing_state' = STOPPED
          ELSE processing_state' = COMPLETED /\ i = total_records]_vars

\* C2: an exception raised in any step of the per-record body never leaves
\* the batch function: the body goes on to the next step or the next record.
C2_ExceptionContained ==
    [][(pc \in Body) => (pc' # "aborted")]_vars

\* C3: a checkpoint saved with processed_count = k holds a result status for
\* each of the records 0..k-1, and the stored cursor equals k.
C3_CheckpointMatchesProcessed ==
    IsNone(partial_results) \/
        LET cp == Get(partial_results)
        IN \A n \in 1..cp.processed_count : cp.df[n].status # None

\* C4: once the loop has observed Paused, no record is processed and the
\* cursor stays where it is until the state read is no longer Paused; it then
\* takes up the next unprocessed record, or, when the state is Stopped, ends
\* without processing any further record.
C4_PauseHoldsCursor ==
    [][/\ (pc \in {"pause_wait", "pause_exit"}) =>
            /\ i' = i
            /\ df' = df
            /\ processed_index' = processed_index
       /\ (pc = "pause_wait" /\ processing_state = PAUSED) => pc' = "pause_wait"
       /\ (pc = "pause_exit" /\ pc' # pc) =>
            IF processing_state = STOPPED
            THEN pc' = "finish"
            ELSE /\ pc' = "record"
                 /\ df[i + 1] = NoResult
                 /\ \A n \in 1..i : df[n].status # None
       /\ (pc = "finish" /\ pc' # "killed") =>
            (df' = df /\ pc' \in {"finish", "returned"})]_vars

C4_Witness ==
    /\ pc = "record"
    /\ wasPaused
    /\ i > 0

\* C5: after a Stop issued while a record is being resolved, at most one
\* provider call still completes; no backoff sleep, no postal-code fallback
\* and no later record is started.
C5_StopCancelsResolution ==
    /\ afterStop.calls <= 1
    /\ ~afterStop.slept
    /\ ~afterStop.cep
    /\ afterStop.records = 0

\* C6: every change of the control state follows an edge of the state
\* machine; Stopped and Completed are not left.
C6_OnlyEdges ==
    [][processing_state' # processing_state =>
          <<processing_state, processing_state'>> \in Edges]_vars

\* C7: for a query whose key is in the cache, geocode_with_retry returns the
\* cached latitude and longitude with status Cache, makes no provider call,
\* sleeps no backoff and leaves the cache as it is.
C7_CacheHit ==
    [][(/\ pc = "gwr_enter"
        /\ pc' # pc
        /\ get_cache_key(address) \in DOMAIN GEOCODING_CACHE) =>
          LET entry == GEOCODING_CACHE[get_cache_key(address)]
          IN /\ pc' \in {"addr_done", "cep_done"}
             /\ ret'.lat = Some(entry[1])
             /\ ret'.lon = Some(entry[2])
             /\ ret'.status = "Cache"
             /\ calls' = 0
             /\ slept' = 0
             /\ GEOCODING_CACHE' = GEOCODING_CACHE
             /\ cache_file' = cache_file]_vars

C7_Witness ==
    /\ pc = "addr_done"
    /\ ret.status = "Cache"
    /\ address # get_cache_key(address)

\* C8: a result with status Sucesso has latitude in [-22, -17] and longitude
\* in [-42, -38].
C8_SuccessInBox ==
    ret.status = "Sucesso" =>
        /\ ~IsNone(ret.lat)
        /\ ~IsNone(ret.lon)
        /\ -22 <= Get(ret.lat) /\ Get(ret.lat) <= -17
        /\ -42 <= Get(ret.lon) /\ Get(ret.lon) <= -38

C8_Witness ==
    /\ pc \in {"addr_done", "cep_done"}
    /\ ret.status = "Sucesso"
    /\ gi = 2

\* C9: a postal code whose cleaned form does not have length 8 makes
\* geocode_cep_robust return no coordinate with status Falhou, without a
\* provider call and without touching the cache.
C9_InvalidCepFails ==
    [][(/\ pc = "cep_enter"
        /\ pc' # pc
        /\ ~IsNone(rows[i + 1].cep)
        /\ Len(CepClean(Get(rows[i + 1].cep))) # 8) =>
          /\ pc' = "cep_done"
          /\ IsNone(ret'.lat)
          /\ IsNone(ret'.lon)
          /\ ret'.status = "Falhou"
          /\ calls' = 0
          /\ GEOCODING_CACHE' = GEOCODING_CACHE
          /\ cache_file' = cache_file]_vars

\* C10: with one provider whose calls time out twice and then answer inside
\* the region, geocode_with_retry returns Sucesso after exactly 3 calls and
\* backoff sleeps of 1 + 2 = 3 units.
C10_RetryScenario ==
    (/\ world = "retry"
     /\ Len(geocoders) = 1
     /\ pc = "addr_done"
     /\ gi = 1) =>
        /\ ret.status = "Sucesso"
        /\ calls = 3
        /\ slept = 1 + 2

\* C11: when every provider raises a retryable error on every call,
\* geocode_with_retry returns no coordinate with status Falhou, and the
\* providers have been called (number of providers) x max_retries times.
C11_AllProvidersFail ==
    (/\ world = "allfail"
     /\ pc = "addr_done"
     /\ gi > 0) =>
        /\ IsNone(ret.lat)
        /\ IsNone(ret.lon)
        /\ ret.status = "Falhou"
        /\ calls = Len(geocoders) * max_retries

\* the record in turn has no full address / a postal code of 8 digits
NoAddress == i < total_records /\ IsNone(rows[i + 1].addr)
WellFormedCep ==
    /\ i < total_records
    /\ hasCep
    /\ ~IsNone(rows[i + 1].cep)
    /\ Len(CepClean(Get(rows[i + 1].cep))) = CepLen

\* C12: a record with no full address and a well-formed postal code is taken
\* into the postal-code resolution; when a provider answers inside the region
\* it is written with that coordinate, status Sucesso and a method prefixed
\* CEP-, counted in cep_count, and the loop goes on to the next record.
C12_PostalOnlyRecord ==
    [][/\ (pc = "record" /\ pc' # pc /\ NoAddress /\ WellFormedCep) =>
            pc' \in {"cep_enter", "gwr_enter"}
       /\ (pc = "cep_done" /\ pc' # pc /\ NoAddress /\ WellFormedCep
             /\ ret.status = "Sucesso") =>
            /\ df'[i + 1] = ret
            /\ ret.method \in {"CEP-" \o geocoders[g] : g \in 1..Len(geocoders)}
            /\ cep_count' = cep_count + 1
       /\ (pc = "stats" /\ pc' # pc /\ NoAddress /\ WellFormedCep) =>
            (pc' = "loop_top" /\ i' = i + 1)]_vars

\* C13: a record with no full address in a dataset without postal-code
\* column is written with no coordinate, method Sem CEP and status Falhou,
\* counted as one error, without any provider call, and the loop goes on to
\* the next record.
C13_NoAddressNoCep ==
    [][/\ (pc = "record" /\ pc' # pc /\ NoAddress /\ ~hasCep) =>
            /\ pc' = "stats"
            /\ df'[i + 1] = Result(Nothing, Nothing, "Sem CEP", "Falhou")
            /\ error_count' = error_count + 1
            /\ calls' = 0
       /\ (pc = "stats" /\ pc' # pc /\ NoAddress /\ ~hasCep) =>
            (pc' = "loop_top" /\ i' = i + 1)]_vars

\* C14: once the loop has observed Paused or Stopped after at least one
\* record, the latest checkpoint exists and its processed_count is the number
\* of records processed so far.
C14_CheckpointOnPauseStop ==
    (/\ i > 0
     /\ \/ pc = "pause_wait"
        \/ pc = "finish" /\ brokeOnStop) =>
        /\ ~IsNone(partial_results)
        /\ Get(partial_results).processed_count = i

\* C15: the status written into a record is one of Sucesso, Cache, Falhou
\* and Erro.
C15_FourStatuses ==
    \A n \in 1..Len(df) :
        df[n].status \in {None, "Sucesso", "Cache", "Falhou", "Erro"}

\* C16: in every record latitude and longitude are both set or both unset,
\* they are set only with status Sucesso or Cache, a record is untouched or
\* has method and status set; no record beyond the one in turn is touched,
\* and after the loop ended on Stopped no record from the cursor on is.
C16_RecordsConsistent ==
    /\ \A n \in 1..Len(df) :
          /\ IsNone(df[n].lat) <=> IsNone(df[n].lon)
          /\ ~IsNone(df[n].lat) => df[n].status \in {"Sucesso", "Cache"}
          /\ \/ df[n] = NoResult
             \/ df[n].method # None /\ df[n].status # None
    /\ \A n \in (i + 2)..Len(df) : df[n] = NoResult
    /\ (brokeOnStop /\ pc \in {"finish", "returned"}) =>
          \A n \in (i + 1)..Len(df) : df[n] = NoResult

C16_Witness ==
    /\ pc = "finish"
    /\ brokeOnStop
    /\ i > 0
    /\ i < Len(df)
    /\ ~IsNone(df[1].lat)

\* C17: when a call to a provider has raised an error that is not a timeout,
\* a service error or an unavailability, no further call to that provider is
\* made for the query.
C17_FatalErrorLeavesProvider ==
    (pc \in {"gwr_call", "gwr_call2"} /\ exc # NoException) => exc \in Retryable

\* C18: every call made to a provider carries a timeout, and a call never
\* ends geocode_with_retry with an exception.
C18_EveryCallHasTimeout ==
    [][(/\ pc \in {"gwr_call", "gwr_call2"}
        /\ <<pc, gi, attempt>>' # <<pc, gi, attempt>>
        /\ pc' # "killed") =>
          /\ ~IsNone(CallTimeout(pc))
          /\ pc' \in {"gwr_call", "gwr_call2", "addr_done", "cep_done"}]_vars

\* C19: when save_cache is interrupted, the file afterwards can be loaded and
\* holds at least every entry that was in the file before.
C19_InterruptedSaveKeepsEntries ==
    [][(/\ pc # "killed"
        /\ pc' = "killed"
        /\ cache_file.readable
        /\ DOMAIN cache_file.data # {}) =>
          /\ cache_file'.readable
          /\ \A k \in DOMAIN cache_file.data :
                /\ k \in DOMAIN load_cache(cache_file', EmptyCache)
                /\ load_cache(cache_file', EmptyCache)[k] = cache_file.data[k]]_vars

\* the cache file exists and cannot be loaded
Unreadable == cache_file.exists /\ ~cache_file.readable

\* C20: load_cache on a file that cannot be loaded leaves the in-memory cache
\* empty and the run starts; a query whose entry is only in that file goes to
\* the providers; a save_cache that fails leaves the file as it is and the
\* result of the record and the end of the run are as without the failure.
C20_PersistenceErrorsContained ==
    [][/\ (pc = "call" /\ pc' # pc /\ Unreadable) =>
            /\ GEOCODING_CACHE' = EmptyCache
            /\ processed_index = 0 => pc' = "set_running"
       /\ (/\ pc = "gwr_enter" /\ pc' # pc /\ Unreadable
           /\ address # <<>> /\ Encodable(address)
           /\ get_cache_key(address) \notin DOMAIN GEOCODING_CACHE) =>
            pc' = "gwr_call"
       /\ (/\ pc \in {"gwr_call", "gwr_call2"}
           /\ ~cache_file.writable
           /\ GEOCODING_CACHE' # GEOCODING_CACHE) =>
            /\ cache_file' = cache_file
            /\ pc' \in {"addr_done", "cep_done"}
            /\ ret'.status = "Sucesso"
            /\ get_cache_key(address) \in DOMAIN GEOCODING_CACHE'
       /\ (pc = "finish" /\ pc' # pc /\ ~cache_file.writable) =>
            (pc' = "returned" /\ cache_file' = cache_file)]_vars

C20_Witness ==
    /\ Unreadable
    /\ ~cache_file.writable
    /\ pc = "returned"
    /\ Len(df) >= 2
    /\ \A n \in 1..Len(df) : df[n].status \in {"Sucesso", "Cache"}

\* C21: a query that is resolved again from the same cache and with the same
\* provider answers (a scripted world) returns the result it returned the
\* first time: latitude, longitude, method and status.
C21_SameResultAgain ==
    [][(/\ world # "free"
        /\ ~IsNone(memo)
        /\ pc \in {"gwr_enter", "gwr_call", "gwr_call2"}
        /\ pc' \in {"addr_done", "cep_done"}
        /\ Get(memo).address = address
        /\ Get(memo).cache = GEOCODING_CACHE) =>
          ret' = Get(memo).result]_vars

C21_Witness ==
    /\ ~IsNone(memo)
    /\ Get(memo).again
    /\ Get(memo).result.status = "Sucesso"
    /\ pc = "addr_done"
    /\ ret = Get(memo).result

\* the coordinates of a cache entry or of a record are inside the region
EntryInRegion(e) == -22 <= e[1] /\ e[1] <= -17 /\ -42 <= e[2] /\ e[2] <= -38

\* C22: every record that has coordinates, from a provider or from the cache
\* (entries of the cache file included), has latitude in [-22, -17] and
\* longitude in [-42, -38]; so has every entry of the cache and of the file.
C22_CoordinatesInRegion ==
    /\ \A n \in 1..Len(df) :
          ~IsNone(df[n].lat) =>
              EntryInRegion(<<Get(df[n].lat), Get(df[n].lon)>>)
    /\ \A k \in DOMAIN GEOCODING_CACHE : EntryInRegion(GEOCODING_CACHE[k])
    /\ \A k \in DOMAIN cache_file.data : EntryInRegion(cache_file.data[k])

C22_Witness ==
    /\ pc = "returned"
    /\ \E n \in 1..Len(df) :
          /\ df[n].status = "Cache"
          /\ df[n].lat = Some(EarlierCache[get_cache_key(AddrRua)][1])
    /\ \E n \in 1..Len(df) : df[n].status = "Sucesso"

\* a step that completes one call of custom_geocode or its fallback call
CallSites == {"gwr_call", "gwr_call2"}
CallStep ==
    /\ pc \in CallSites
    /\ <<pc, gi, attempt>>' # <<pc, gi, attempt>>
    /\ pc' # "killed"

\* in the scripted worlds: the provider raises a retryable error on this call
RaisesRetryable ==
    world = "allfail" \/ (world = "retry" /\ calls < 2)

\* C23: after a retryable error of a provider on attempt a, the loop sleeps
\* 2^a and calls the same provider for attempt a + 1 when a < max_retries - 1;
\* after the last attempt it goes to the next provider without sleeping.
C23_BackoffAfterError ==
    [][(CallStep /\ RaisesRetryable) =>
          IF attempt < max_retries - 1
          THEN /\ slept' = slept + Pow2(attempt)
               /\ pc' = "gwr_call"
               /\ gi' = gi
               /\ attempt' = attempt + 1
          ELSE /\ slept' = slept
               /\ \/ gi' = gi + 1 /\ pc' = "gwr_call"
                  \/ pc' \in {"addr_done", "cep_done"}]_vars

\* C24: the providers are called in list order, the next one only after the
\* last attempt on the one in turn or after its fallback call raised; the first
\* answer inside the region ends the query with no further call, carries the
\* name of the provider in turn and is in the cache under the query's key.
C24_ProviderOrder ==
    [][/\ (pc = "gwr_enter" /\ pc' \in CallSites) => (gi' = 1 /\ attempt' = 0)
       /\ (pc \in CallSites /\ pc' \in CallSites) =>
            \/ gi' = gi
            \/ /\ gi' = gi + 1
               /\ attempt' = 0
               /\ attempt = max_retries - 1 \/ pc = "gwr_call2"
       /\ (pc \in CallSites /\ pc' \in {"addr_done", "cep_done"}
             /\ ~IsNone(ret'.lat)) =>
            /\ gi' = gi
            /\ ret'.status = "Sucesso"
            /\ ret'.method =
                 IF phase = "cep" THEN "CEP-" \o geocoders[gi] ELSE geocoders[gi]
            /\ get_cache_key(address) \in DOMAIN GEOCODING_CACHE'
            /\ GEOCODING_CACHE'[get_cache_key(address)] =
                 <<Get(ret'.lat), Get(ret'.lon), geocoders[gi], "Sucesso">>
       /\ (pc \in {"addr_done", "cep_done"}) => pc' \notin CallSites]_vars

C24_Witness ==
    /\ pc = "cep_done"
    /\ ret.status = "Sucesso"
    /\ gi = Len(geocoders)
    /\ gi > 1
    /\ attempt > 0

\* C25: the postal-code lookup is entered only after a full-address attempt
\* that returned no coordinate; a full-address attempt that returned a
\* coordinate is written to the record and nothing more is called for it.
C25_PostalOnlyAfterFailure ==
    [][/\ (pc' = "cep_enter" /\ pc # "cep_enter") =>
            (pc = "addr_done" /\ IsNone(ret.lat) /\ hasCep)
       /\ (pc = "addr_done" /\ pc' # pc /\ ~IsNone(ret.lat)) =>
            (pc' = "stats" /\ df'[i + 1] = ret)
       /\ (pc = "stats" /\ pc' # pc) => pc' \in {"loop_top", "aborted"}]_vars

C25_Witness ==
    /\ pc = "stats"
    /\ phase = "addr"
    /\ WellFormedCep
    /\ df[i + 1].status = "Sucesso"
    /\ ~IsNone(df[i + 1].lat)

\* resolving the record in turn has entered the provider loop
IssuedCall == gi > 0

\* C26: after a record the rate-limit delay is slept exactly when resolving
\* that record called a provider.
C26_DelayIffCall ==
    [][(pc = "stats" /\ pc' = "loop_top") => (RateLimited <=> IssuedCall)]_vars

\* the sum of the four counters
Sum == success_count + cep_count + cache_count + error_count

\* C27: in a run started at cursor 0 each processed record adds 1 to exactly
\* one counter, and the counters published after the record sum up to the
\* published total_processed, the number of records processed.
C27_CountersSumToProcessed ==
    [][/\ (pc \in {"addr_done", "cep_done", "except"} /\ pc' = "stats") =>
            /\ Sum' = Sum + 1
            /\ success_count' >= success_count
            /\ cep_count' >= cep_count
            /\ cache_count' >= cache_count
            /\ error_count' >= error_count
       /\ (pc = "loop_top") => Sum = i
       /\ (pc = "stats" /\ pc' \in {"loop_top", "aborted"}) =>
            LET cs == Get(current_stats')
            IN /\ cs.total_processed = i + 1
               /\ cs.success_count + cs.cep_count + cs.cache_count
                    + cs.error_count = cs.total_processed]_vars

C27_Witness ==
    /\ pc = "loop_top"
    /\ i = 2
    /\ ~IsNone(current_stats)
    /\ Get(current_stats).total_processed = 2
    /\ Get(current_stats).success_count = 1
    /\ Get(current_stats).error_count = 1

\* C28: on entry with a cursor k > 0 the function goes on to the loop with
\* recomputed counters that are non-negative, sum to k and equal the counters
\* accumulated while the first k records were processed.
C28_RecountEqualsAccumulated ==
    [][(pc = "call" /\ pc' # pc /\ processed_index > 0) =>
          /\ pc' = "set_running"
          /\ success_count' >= 0 /\ cep_count' >= 0
          /\ cache_count' >= 0 /\ error_count' >= 0
          /\ Sum' = processed_index
          /\ counters' = counters]_vars

\* C29: once Stop has set the state to Stopped, the function on its way to the
\* next record neither sets the state back to Running nor starts a record.
C29_StopNeverLost ==
    [][(/\ processing_state = STOPPED
        /\ pc \in {"call", "set_running", "loop_top", "pause_wait", "pause_exit"}
        /\ pc' # pc) =>
          (processing_state' # RUNNING /\ pc' # "record")]_vars

\* geocode_batch_with_control has been called
Started == pc = "call"

\* the run is Completed with a status on every record and every record counted
CompletedAll ==
    /\ processing_state = COMPLETED
    /\ Len(df) = Len(rows)
    /\ \A n \in 1..Len(df) : df[n].status # NoResult.status
    /\ ~IsNone(current_stats)
    /\ Get(current_stats).total_processed = Len(rows)

\* the batch function has been left, by return or by an exception
LoopEnded == pc \in {"returned", "aborted"}

\* C30: when no Stop is issued, every Pause is followed by a Resume and the
\* process is not killed, a called run eventually is Completed with a status
\* on every record and total_processed = number of records, and the state is
\* not Running once the batch function has been left.
C30_RunCompletes ==
    ([](processing_state # STOPPED /\ pc # "killed")
       /\ []<>(processing_state # PAUSED))
    => /\ Started ~> CompletedAll
       /\ [](LoopEnded => processing_state # RUNNING)

====
